---- MODULE Spec2Model ----
(***************************************************************************)
(* Dog breed predictor: the FastAPI service of dog-breed-backend/main.py   *)
(* (startup hook, four GET endpoints, POST /predict) and the training-side *)
(* model builder of create_model.py.                                       *)
(*                                                                         *)
(* Strings the code transforms (breed names, content types) are sequences  *)
(* of one-character strings; probabilities are fixed-point integers v that *)
(* stand for v / ProbScale.                                                *)
(***************************************************************************)
EXTENDS Integers, Sequences, FiniteSets, TLC

VARIABLES
    fs,        \* the files and the server configuration the process runs with
    phase,     \* "boot" | "running" | "failed": where startup_event got
    model,     \* the global `model`
    breeds,    \* the global `breeds`
    inflight,  \* per request slot: a POST /predict suspended at `await file.read()`
    last       \* the response most recently produced, with the handler's locals

vars == <<fs, phase, model, breeds, inflight, last>>

-----------------------------------------------------------------------------
(* Bounds *)

MaxBreeds == 3   \* longest breeds.json list
ProbScale == 2   \* an output vector's entries sum to ProbScale
NumReqs == 2     \* request slots served concurrently

(* Program constants *)

IMG_SIZE == 224
TRAIN_IMG_SIZE == 224
OUTPUT_SHAPE == 120
TOP_K == 3

MODEL_URL == "https://kaggle.com/models/google/mobilenet-v2/TensorFlow2/100-224-feature-vector/1"
TRAIN_MODEL_URL == "https://kaggle.com/models/google/mobilenet-v2/TensorFlow2/100-224-feature-vector/1"

Reqs == 1..NumReqs

-----------------------------------------------------------------------------
(* Strings: str.replace("_", " ") and str.title() *)

Lowers == {"a", "b"}
Uppers == {"A", "B"}
IsCased(c) == c \in Lowers \cup Uppers

Upper(c) == CASE c = "a" -> "A" [] c = "b" -> "B" [] OTHER -> c
Lower(c) == CASE c = "A" -> "a" [] c = "B" -> "b" [] OTHER -> c

\* s.replace("_", " ")
Replace(s) == [i \in 1..Len(s) |-> IF s[i] = "_" THEN " " ELSE s[i]]

\* s.title(): a cased character is upper-cased when the character before it
\* is not cased (or there is none), lower-cased otherwise
Title(s) ==
    [i \in 1..Len(s) |->
        IF ~IsCased(s[i]) THEN s[i]
        ELSE IF i > 1 /\ IsCased(s[i-1]) THEN Lower(s[i]) ELSE Upper(s[i])]

\* breed.replace("_", " ").title()
Display(breed) == Title(Replace(breed))

\* the breed names breeds.json is drawn from:
\* "a_b", "bA", "b_a", "Ab", "a_a", "B_b"
BreedPool ==
    << <<"a", "_", "b">>, <<"b", "A">>, <<"b", "_", "a">>,
       <<"A", "b">>, <<"a", "_", "a">>, <<"B", "_", "b">> >>

\* the lists breeds.json can hold: the first n names, n from 1 to MaxBreeds
\* (whether a dense layer of no units can be built at all depends on the
\* Keras release, so the empty list is left out)
BreedLists ==
    { SubSeq(BreedPool, 1, n) :
        n \in 1..(IF MaxBreeds < Len(BreedPool) THEN MaxBreeds ELSE Len(BreedPool)) }

-----------------------------------------------------------------------------
(* The globals' values *)

NoArch ==
    [ input_shape |-> <<>>, url |-> "", units |-> 0, activation |-> "",
      loss |-> "", optimizer |-> "", metrics |-> <<>> ]
NoModel == [none |-> TRUE, arch |-> NoArch, trained |-> FALSE]       \* None

BreedsNone == [kind |-> "none", int |-> 0, list |-> <<>>]            \* None
BreedsInt(n) == [kind |-> "int", int |-> n, list |-> <<>>]
BreedsList(l) == [kind |-> "list", int |-> 0, list |-> l]

\* `breeds` in a boolean context (read_root): None, 0 and [] are falsy
Truthy(b) ==
    CASE b.kind = "none" -> FALSE
      [] b.kind = "int" -> b.int # 0
      [] OTHER -> Len(b.list) > 0

-----------------------------------------------------------------------------
(* The environment *)

Files ==
    [ breeds_json : { [exists |-> FALSE, content |-> <<>>] }
                    \cup { [exists |-> TRUE, content |-> l] : l \in BreedLists },
      weights : {"absent", "bad", "good"},  \* the weights file: missing, one
                                            \* load_weights rejects, one it accepts
      lifespan : BOOLEAN ]        \* the server runs the startup hook before serving

-----------------------------------------------------------------------------
(* Model builders *)

NONE_DIM == -1   \* the batch dimension None of INPUT_SHAPE

INPUT_SHAPE == <<NONE_DIM, IMG_SIZE, IMG_SIZE, 3>>
TRAIN_INPUT_SHAPE == <<NONE_DIM, TRAIN_IMG_SIZE, TRAIN_IMG_SIZE, 3>>

\* create_model.py: create_model(input_shape, output_shape, model_url)
train_create_model(input_shape, output_shape, model_url) ==
    [ input_shape |-> Tail(input_shape),
      url |-> model_url,
      units |-> output_shape,
      activation |-> "softmax",
      loss |-> "CategoricalCrossentropy",
      optimizer |-> "Adam",
      metrics |-> <<"accuracy">> ]

\* create_model.py's builder called with its defaults
train_default_model == train_create_model(TRAIN_INPUT_SHAPE, OUTPUT_SHAPE, TRAIN_MODEL_URL)

\* create_model as it would be with the training side's fixed number of units
create_model_fixed_units(b) ==
    [ none |-> FALSE,
      arch |-> [ input_shape |-> Tail(INPUT_SHAPE),
                 url |-> MODEL_URL,
                 units |-> OUTPUT_SHAPE,
                 activation |-> "softmax",
                 loss |-> "CategoricalCrossentropy",
                 optimizer |-> "Adam",
                 metrics |-> <<"accuracy">> ],
      trained |-> FALSE ]

\* main.py: create_model(), reading the global breeds (b is its value at the call)
create_model(b) ==
    [ none |-> FALSE,
      arch |-> [ input_shape |-> Tail(INPUT_SHAPE),
                 url |-> MODEL_URL,
                 units |-> Len(b.list),
                 activation |-> "softmax",
                 loss |-> "CategoricalCrossentropy",
                 optimizer |-> "Adam",
                 metrics |-> <<"accuracy">> ],
      trained |-> FALSE ]

\* main.py: load_breeds()
load_breeds ==
    IF fs.breeds_json.exists THEN BreedsList(fs.breeds_json.content)
    ELSE BreedsInt(-1)

\* main.py: load_trained_model(weights_path); weights is the state of the file
\* at weights_path, built tells whether create_model() returned or raised
load_trained_model(weights, b, built) ==
    IF built /\ weights = "good"
    THEN [create_model(b) EXCEPT !.trained = TRUE]
    ELSE NoModel

-----------------------------------------------------------------------------
(* Uploads and images *)

NoneType == [none |-> TRUE, s |-> <<>>]          \* content_type is None
Str(s) == [none |-> FALSE, s |-> s]

ContentTypes ==
    { NoneType,                        \* the part carries no Content-Type header
      Str(<<>>),                       \* ""
      Str(<<"image", "/", "jpeg">>),   \* "image/jpeg"
      Str(<<"image">>),                \* "image"
      Str(<<"text", "/", "plain">>) }  \* "text/plain"

\* s.startswith(prefix)
startswith(s, prefix) ==
    Len(s) >= Len(prefix) /\ SubSeq(s, 1, Len(prefix)) = prefix

NoData ==
    [ decodable |-> FALSE, complete |-> FALSE, mode |-> "", width |-> 0,
      height |-> 0, format |-> "", pixels |-> "" ]

\* the uploaded bytes: not an image at all, an image cut short after its
\* header, a complete greyscale PNG
FileData ==
    { [NoData EXCEPT !.pixels = "junk"],
      [ decodable |-> TRUE, complete |-> FALSE, mode |-> "RGB", width |-> 2,
        height |-> 1, format |-> "JPEG", pixels |-> "cut" ],
      [ decodable |-> TRUE, complete |-> TRUE, mode |-> "L", width |-> 1,
        height |-> 2, format |-> "PNG", pixels |-> "fido" ] }

NoUpload == [content_type |-> NoneType, data |-> NoData]

NoImage == [mode |-> "", size |-> <<0, 0>>, format |-> "", complete |-> FALSE, pixels |-> ""]
NoTensor == [shape |-> <<>>, dtype |-> "", pixels |-> ""]

\* Image.open(io.BytesIO(image_data)): raises on bytes that are no image
Image_open(image_data) ==
    [ ok |-> image_data.decodable,
      image |-> IF image_data.decodable
                THEN [ mode |-> image_data.mode,
                       size |-> <<image_data.width, image_data.height>>,
                       format |-> image_data.format,
                       complete |-> image_data.complete,
                       pixels |-> image_data.pixels ]
                ELSE NoImage ]

\* main.py: preprocess_image(image); decoding the pixels of a file cut short raises
preprocess_image(image) ==
    LET rgb == IF image.mode # "RGB" THEN [image EXCEPT !.mode = "RGB"] ELSE image
        resized == [rgb EXCEPT !.size = <<IMG_SIZE, IMG_SIZE>>]
        img_array == [ shape |-> <<resized.size[2], resized.size[1], 3>>,
                       dtype |-> "float32", pixels |-> resized.pixels ]
    IN  [ ok |-> image.complete,
          tensor |-> IF image.complete
                     THEN [img_array EXCEPT !.shape = <<1>> \o img_array.shape]
                     ELSE NoTensor ]

-----------------------------------------------------------------------------
(* Output vectors and their decoding.  Positions are 1-based here, 0-based  *)
(* in the code.                                                             *)

RECURSIVE VecSum(_, _)
VecSum(n, total) ==
    IF n = 0 THEN (IF total = 0 THEN { <<>> } ELSE {})
    ELSE UNION { { Append(v, x) : v \in VecSum(n - 1, total - x) } : x \in 0..total }

\* what model.predict can return for one image: a batch of one softmax row
Outputs(units) == { <<row>> : row \in VecSum(units, ProbScale) }

RECURSIVE Flatten(_)
Flatten(a) == IF a = <<>> THEN <<>> ELSE Head(a) \o Flatten(Tail(a))

SeqMax(row) == CHOOSE m \in {row[i] : i \in 1..Len(row)} : \A i \in 1..Len(row) : row[i] <= m

\* np.argmax(a): the first position of the largest entry of a, flattened
np_argmax(a) ==
    LET flat == Flatten(a)
    IN  CHOOSE i \in 1..Len(flat) :
            /\ flat[i] = SeqMax(flat)
            /\ \A j \in 1..(i - 1) : flat[j] < flat[i]

\* np.max(row)
np_max(row) == SeqMax(row)

\* np.argsort(row): the orders of the positions that sort row ascending; the
\* default sort is not stable, so equal entries come in any order
RECURSIVE SortedOrders(_, _)
SortedOrders(row, S) ==
    IF S = {} THEN { <<>> }
    ELSE LET least == { i \in S : \A j \in S : row[i] <= row[j] }
         IN  UNION { { <<i>> \o rest : rest \in SortedOrders(row, S \ {i}) } : i \in least }

np_argsort(row) == SortedOrders(row, 1..Len(row))

\* a[-k:][::-1]
LastReversed(a, k) ==
    LET n == IF Len(a) < k THEN Len(a) ELSE k
    IN  [i \in 1..n |-> a[Len(a) - i + 1]]

\* get_pred_label as it would be if it indexed the breed list one position off
get_pred_label_off_by_one(prediction_probabilities) ==
    breeds.list[(np_argmax(prediction_probabilities) % Len(breeds.list)) + 1]

\* main.py: get_pred_label(prediction_probabilities)
get_pred_label(prediction_probabilities) ==
    breeds.list[np_argmax(prediction_probabilities)]

\* main.py: get_top_predictions, line 94; order is what np.argsort returned
top_indices(order, top_k) == LastReversed(order, top_k)

\* main.py: get_top_predictions(prediction_probabilities, top_k)
get_top_predictions(prediction_probabilities, top_k, order) ==
    LET idx == top_indices(order, top_k)
    IN  [ i \in 1..Len(idx) |->
            [ breed |-> Display(breeds.list[idx[i]]),
              confidence |-> prediction_probabilities[1][idx[i]] ] ]

-----------------------------------------------------------------------------
(* Responses.  A response is kept with the locals of the handler that made  *)
(* it: status 0 means none yet, escaped that an exception left the handler  *)
(* and the framework answered 500 itself.                                   *)

NoResp ==
    [ ep |-> "none", status |-> 0, detail |-> "", error |-> "",
      escaped |-> FALSE, content_type |-> NoneType, image_data |-> NoData,
      trace |-> <<>>,
      image |-> NoImage, processed_image |-> NoTensor, model_input |-> NoTensor,
      predictions |-> <<>>, top_indices |-> <<>>,
      model_loaded |-> FALSE, model_status |-> "", total_breeds |-> 0,
      output_units |-> 0, names |-> <<>>,
      success |-> FALSE, breed |-> <<>>, confidence |-> 0, top_3 |-> <<>>,
      model_trained |-> FALSE ]

\* an exception nothing in the handler catches
Escaped(ep, error) ==
    [NoResp EXCEPT !.ep = ep, !.status = 500,
                   !.detail = "Internal Server Error", !.error = error,
                   !.escaped = TRUE]

\* raise HTTPException(status_code, detail)
HTTPException(ep, status_code, detail) ==
    [NoResp EXCEPT !.ep = ep, !.status = status_code, !.detail = detail]

Idle == [pc |-> "idle", file |-> NoUpload]

\* requests are served once the startup hook has completed, or from the start
\* by a server that runs no startup hook
Serving == IF fs.lifespan THEN phase = "running" ELSE TRUE

-----------------------------------------------------------------------------
(* Startup *)

Init ==
    /\ fs \in Files
    /\ phase = "boot"
    /\ model = NoModel
    /\ breeds = BreedsNone
    /\ inflight = [r \in Reqs |-> Idle]
    /\ last = NoResp

\* startup_event as it would be if it built a fresh model only when no
\* weights file was found
startup_event_no_fallback ==
    /\ fs.lifespan
    /\ phase = "boot"
    /\ \E built1 \in BOOLEAN, built2 \in BOOLEAN :
        LET b == load_breeds
            found == fs.weights # "absent"
            loaded == IF found THEN load_trained_model(fs.weights, b, built1) ELSE model
        IN  /\ breeds' = b
            /\ IF b.kind # "list"
               THEN model' = model /\ phase' = "failed"
               ELSE IF found
               THEN model' = loaded /\ phase' = "running"
               ELSE IF built2
               THEN model' = create_model(b) /\ phase' = "running"
               ELSE model' = loaded /\ phase' = "failed"
    /\ UNCHANGED <<fs, inflight, last>>

\* main.py: startup_event(); built1 and built2 tell whether the create_model()
\* call inside load_trained_model and the one at line 136 returned or raised
startup_event ==
    /\ fs.lifespan
    /\ phase = "boot"
    /\ \E built1 \in BOOLEAN, built2 \in BOOLEAN :
        LET b == load_breeds
            found == fs.weights # "absent"
            loaded == IF found THEN load_trained_model(fs.weights, b, built1) ELSE model
            model_loaded == found /\ ~loaded.none
        IN  /\ breeds' = b
            /\ IF b.kind # "list"
               THEN \* len(breeds) raises TypeError at line 112
                    /\ model' = model
                    /\ phase' = "failed"
               ELSE IF model_loaded
               THEN /\ model' = loaded
                    /\ phase' = "running"
               ELSE IF built2
               THEN /\ model' = create_model(b)
                    /\ phase' = "running"
               ELSE /\ model' = loaded
                    /\ phase' = "failed"
    /\ UNCHANGED <<fs, inflight, last>>

-----------------------------------------------------------------------------
(* GET endpoints *)

\* main.py: read_root()
read_root ==
    /\ Serving
    /\ last' = IF Truthy(breeds) /\ breeds.kind # "list"
               THEN Escaped("root", "TypeError")   \* len() of an int
               ELSE [NoResp EXCEPT !.ep = "root", !.status = 200,
                                   !.model_loaded = ~model.none,
                                   !.total_breeds = IF Truthy(breeds)
                                                    THEN Len(breeds.list) ELSE 0]
    /\ UNCHANGED <<fs, phase, model, breeds, inflight>>

\* main.py: health_check()
health_check ==
    /\ Serving
    /\ last' = [NoResp EXCEPT !.ep = "health", !.status = 200,
                              !.model_status = IF ~model.none THEN "loaded" ELSE "not_loaded"]
    /\ UNCHANGED <<fs, phase, model, breeds, inflight>>

\* main.py: model_info()
model_info ==
    /\ Serving
    /\ last' = IF model.none
               THEN HTTPException("info", 503, "Model not loaded")
               ELSE IF breeds.kind # "list"
               THEN HTTPException("info", 500, "Error getting model info")
               ELSE [NoResp EXCEPT !.ep = "info", !.status = 200,
                                   !.model_loaded = TRUE,
                                   !.output_units = model.arch.units,
                                   !.total_breeds = Len(breeds.list),
                                   !.names = [i \in 1..(IF Len(breeds.list) < 10
                                                        THEN Len(breeds.list) ELSE 10)
                                                |-> Display(breeds.list[i])]]
    /\ UNCHANGED <<fs, phase, model, breeds, inflight>>

\* get_breeds as it would be if it title-cased the global list in place
get_breeds_in_place ==
    /\ Serving
    /\ breeds.kind = "list"
    /\ breeds' = BreedsList([i \in 1..Len(breeds.list) |-> Display(breeds.list[i])])
    /\ last' = [NoResp EXCEPT !.ep = "breeds", !.status = 200,
                              !.total_breeds = Len(breeds.list),
                              !.names = breeds'.list]
    /\ UNCHANGED <<fs, phase, model, inflight>>

\* main.py: get_breeds()
get_breeds ==
    /\ Serving
    /\ last' = IF breeds.kind # "list"
               THEN Escaped("breeds", "TypeError")
               ELSE [NoResp EXCEPT !.ep = "breeds", !.status = 200,
                                   !.total_breeds = Len(breeds.list),
                                   !.names = [i \in 1..Len(breeds.list)
                                                |-> Display(breeds.list[i])]]
    /\ UNCHANGED <<fs, phase, model, breeds, inflight>>

-----------------------------------------------------------------------------
(* POST /predict *)

ImagePrefix == <<"image", "/">>   \* 'image/'

\* predict_breed as it would be if it read and preprocessed the upload before
\* looking at its content type
predict_breed_eager(r) ==
    /\ Serving
    /\ inflight[r].pc = "idle"
    /\ \E content_type \in ContentTypes, data \in FileData :
        IF model.none
        THEN /\ last' = [HTTPException("predict", 503, "Model not loaded")
                            EXCEPT !.content_type = content_type]
             /\ UNCHANGED inflight
        ELSE IF content_type.none
        THEN /\ last' = [Escaped("predict", "AttributeError")
                            EXCEPT !.content_type = content_type]
             /\ UNCHANGED inflight
        ELSE IF ~startswith(content_type.s, ImagePrefix)
        THEN /\ last' = [HTTPException("predict", 400,
                                       "File must be an image (jpg, png, etc.)")
                            EXCEPT !.content_type = content_type,
                                   !.image_data = data,
                                   !.trace = <<"read", "open", "preprocess">>]
             /\ UNCHANGED inflight
        ELSE /\ inflight' = [inflight EXCEPT ![r] =
                        [pc |-> "reading",
                         file |-> [content_type |-> content_type, data |-> data]]]
             /\ UNCHANGED last
    /\ UNCHANGED <<fs, phase, model, breeds>>

\* main.py: predict_breed, lines 188-199: the checks, up to `await file.read()`.
\* Nothing looks at the bytes of an upload that is turned away, so they are
\* drawn only for an upload that passes the checks.
predict_breed(r) ==
    /\ Serving
    /\ inflight[r].pc = "idle"
    /\ \E content_type \in ContentTypes :
        IF model.none
        THEN /\ last' = [HTTPException("predict", 503, "Model not loaded")
                            EXCEPT !.content_type = content_type]
             /\ UNCHANGED inflight
        ELSE IF content_type.none
        THEN \* None has no startswith: AttributeError, outside the try
             /\ last' = [Escaped("predict", "AttributeError")
                            EXCEPT !.content_type = content_type]
             /\ UNCHANGED inflight
        ELSE IF ~startswith(content_type.s, ImagePrefix)
        THEN /\ last' = [HTTPException("predict", 400,
                                       "File must be an image (jpg, png, etc.)")
                            EXCEPT !.content_type = content_type]
             /\ UNCHANGED inflight
        ELSE /\ \E data \in FileData :
                    inflight' = [inflight EXCEPT ![r] =
                        [pc |-> "reading",
                         file |-> [content_type |-> content_type, data |-> data]]]
             /\ UNCHANGED last
    /\ UNCHANGED <<fs, phase, model, breeds>>

\* raise HTTPException(status_code=500, detail=f"Error processing image: {str(e)}")
\* after the calls in trace, the last of which raised error
processing_error(file, trace, error) ==
    [HTTPException("predict", 500, "Error processing image")
        EXCEPT !.error = error, !.content_type = file.content_type,
               !.image_data = file.data, !.trace = trace]

\* main.py: predict_breed, lines 212-238: decoding predictions into the 200
\* response; order is what np.argsort returned inside get_top_predictions
predict_result(file, image, processed_image, predictions, order) ==
    LET top_breed == get_pred_label(predictions)
        confidence == np_max(predictions[1])
        top_3 == get_top_predictions(predictions, TOP_K, order)
    IN  [NoResp EXCEPT
            !.ep = "predict", !.status = 200,
            !.content_type = file.content_type, !.image_data = file.data,
            !.trace = <<"read", "open", "preprocess", "predict",
                        "get_pred_label", "get_top_predictions">>,
            !.image = image, !.processed_image = processed_image,
            !.model_input = processed_image, !.predictions = predictions,
            !.top_indices = top_indices(order, TOP_K),
            !.success = TRUE,
            !.breed = Display(top_breed),
            !.confidence = confidence,
            !.top_3 = top_3,
            !.total_breeds = Len(breeds.list),
            !.model_trained = (confidence * 10 > ProbScale)]

\* model.predict(processed_image, verbose=0): raises, or returns a batch of
\* one row with one probability per output unit
model_predict(processed_image) ==
    { [ok |-> FALSE, predictions |-> <<>>] }
    \cup { [ok |-> TRUE, predictions |-> p] : p \in Outputs(model.arch.units) }

\* main.py: predict_breed resumed after `await file.read()`, lines 199-245
predict_breed_read(r) ==
    /\ inflight[r].pc = "reading"
    /\ LET file == inflight[r].file
           image_data == file.data
           opened == Image_open(image_data)
           image == opened.image
           pre == preprocess_image(image)
           processed_image == pre.tensor
       IN  IF ~opened.ok
           THEN last' = processing_error(file, <<"read", "open">>,
                                         "UnidentifiedImageError")
           ELSE IF ~pre.ok
           THEN last' = [processing_error(file, <<"read", "open", "preprocess">>,
                                          "OSError")
                            EXCEPT !.image = image]
           ELSE \E out \in model_predict(processed_image) :
                IF ~out.ok
                THEN last' = [processing_error(file,
                                    <<"read", "open", "preprocess", "predict">>,
                                    "ResourceExhaustedError")
                                EXCEPT !.image = image,
                                       !.processed_image = processed_image,
                                       !.model_input = processed_image]
                ELSE \E order \in np_argsort(out.predictions[1]) :
                        last' = predict_result(file, image, processed_image,
                                               out.predictions, order)
    /\ inflight' = [inflight EXCEPT ![r] = Idle]
    /\ UNCHANGED <<fs, phase, model, breeds>>

-----------------------------------------------------------------------------

Next ==
    \/ startup_event
    \/ read_root
    \/ health_check
    \/ model_info
    \/ get_breeds
    \/ \E r \in Reqs : predict_breed(r)
    \/ \E r \in Reqs : predict_breed_read(r)

Spec == Init /\ [][Next]_vars

-----------------------------------------------------------------------------
(* Vocabulary of the properties *)

\* the last response is one of POST /predict with this status
Predicted(status) == last.ep = "predict" /\ last.status = status

\* the upload is declared an image: a content type that starts with 'image/'
DeclaredImage(content_type) ==
    ~content_type.none /\ startswith(content_type.s, ImagePrefix)

\* a largest entry of row stands at position i, and none stands before it
FirstLargest(row, i) ==
    /\ \A j \in 1..Len(row) : row[j] <= row[i]
    /\ \A j \in 1..(i - 1) : row[j] < row[i]

\* how often step stands in trace, and where it stands first (0: nowhere)
Count(trace, step) == Cardinality({ i \in 1..Len(trace) : trace[i] = step })
Pos(trace, step) ==
    IF Count(trace, step) = 0 THEN 0
    ELSE CHOOSE i \in 1..Len(trace) :
            trace[i] = step /\ \A j \in 1..(i - 1) : trace[j] # step

-----------------------------------------------------------------------------
(* C1 *)

\* C1: once requests are served, no step changes the globals model and
\* breeds: every handler, whatever status it ends in, leaves both as
\* startup_event left them.
C1_GlobalsReadOnly ==
    [][Serving => (model' = model /\ breeds' = breeds)]_vars

\* a POST /predict has ended in 500 after a completed startup, and the
\* globals hold what startup built
C1_Witness ==
    /\ phase = "running"
    /\ Predicted(500)
    /\ breeds = BreedsList(fs.breeds_json.content)
    /\ model.arch.units = Len(breeds.list)

-----------------------------------------------------------------------------
(* C2 *)

\* C2 as stated: prediction.breed is the breed list entry at the index of the
\* largest probability, prediction.confidence is that probability, and every
\* top_3_predictions entry pairs the breed list entry at some index with the
\* probability at that index.
C2_Original ==
    Predicted(200) =>
        LET row == last.predictions[1]
        IN  /\ Len(row) = Len(breeds.list)
            /\ \E i \in 1..Len(row) :
                /\ FirstLargest(row, i)
                /\ last.breed = breeds.list[i]
                /\ last.confidence = row[i]
            /\ \A k \in 1..Len(last.top_3) :
                \E i \in 1..Len(row) :
                    /\ last.top_3[k].breed = breeds.list[i]
                    /\ last.top_3[k].confidence = row[i]

\* C2 amended: the breeds reported are the display forms (underscores turned
\* into spaces, title-cased) of the breed list entries: prediction.breed that
\* of the entry at the first index of the largest probability, with that
\* probability as confidence, and every top_3_predictions entry that of the
\* entry at some index i, with the probability at i.
C2_IndexAligned ==
    Predicted(200) =>
        LET row == last.predictions[1]
        IN  /\ Len(row) = Len(breeds.list)
            /\ \E i \in 1..Len(row) :
                /\ FirstLargest(row, i)
                /\ last.breed = Title(Replace(breeds.list[i]))
                /\ last.confidence = row[i]
            /\ \A k \in 1..Len(last.top_3) :
                \E i \in 1..Len(row) :
                    /\ last.top_3[k].breed = Title(Replace(breeds.list[i]))
                    /\ last.top_3[k].confidence = row[i]

\* a 200 response over a full-length breed list whose largest probability
\* does not stand first
C2_Witness ==
    /\ Predicted(200)
    /\ Len(breeds.list) = MaxBreeds
    /\ ~FirstLargest(last.predictions[1], 1)

-----------------------------------------------------------------------------
(* C3 *)

\* C3: with the model loaded, a POST /predict whose content type does not
\* start with 'image/' is answered 400 with the detail 'File must be an image
\* (jpg, png, etc.)', and nothing of the file is read, preprocessed or passed
\* to the model.
C3_NonImageRejected ==
    (last.ep = "predict" /\ ~model.none /\ ~DeclaredImage(last.content_type)) =>
        /\ last.status = 400
        /\ last.detail = "File must be an image (jpg, png, etc.)"
        /\ last.trace = <<>>

-----------------------------------------------------------------------------
(* C4 *)

\* C4: after startup, model_loaded of GET / is true exactly when the weights
\* file was found and its weights were loaded into the model.
C4_ModelLoadedMeansTrained ==
    (phase = "running" /\ last.ep = "root") =>
        (last.model_loaded <=> (fs.weights # "absent" /\ model.trained))

-----------------------------------------------------------------------------
(* C5 *)

\* what a response of POST /predict shows of the steps its request took
PipelineShape(resp) ==
    /\ resp.status = 200 =>
        /\ Count(resp.trace, "preprocess") = 1
        /\ Count(resp.trace, "predict") = 1
        /\ Count(resp.trace, "get_pred_label") = 1
        /\ Count(resp.trace, "get_top_predictions") = 1
        /\ Pos(resp.trace, "preprocess") < Pos(resp.trace, "predict")
        /\ Pos(resp.trace, "predict") < Pos(resp.trace, "get_pred_label")
        /\ Pos(resp.trace, "predict") < Pos(resp.trace, "get_top_predictions")
        /\ resp.image = Image_open(resp.image_data).image
        /\ resp.processed_image = preprocess_image(resp.image).tensor
        /\ resp.model_input = resp.processed_image
        /\ resp.processed_image.shape = <<1, IMG_SIZE, IMG_SIZE, 3>>
        /\ Len(resp.predictions[1]) = model.arch.units
    /\ resp.status \in {400, 503} =>
        /\ Count(resp.trace, "preprocess") = 0
        /\ Count(resp.trace, "predict") = 0
        /\ resp.processed_image = NoTensor
        /\ resp.predictions = <<>>

\* C5: a 200 response of POST /predict follows exactly one preprocessing of
\* the uploaded image, then exactly one inference on the preprocessed tensor,
\* then the label decoding; a 400 or 503 follows neither preprocessing nor
\* inference; and the request that completes answers from its own upload,
\* whatever other requests are in flight.
C5_LinearPipeline ==
    [][ /\ last'.ep = "predict" => PipelineShape(last')
        /\ \A r \in Reqs :
            (inflight[r].pc = "reading" /\ inflight'[r].pc = "idle") =>
                /\ last'.ep = "predict"
                /\ last'.content_type = inflight[r].file.content_type
                /\ last'.image_data = inflight[r].file.data
                /\ \A q \in Reqs \ {r} : inflight'[q] = inflight[q] ]_vars

\* a 200 response while another request, with other bytes, is still in flight
C5_Witness ==
    /\ Predicted(200)
    /\ \E q \in Reqs :
        /\ inflight[q].pc = "reading"
        /\ inflight[q].file.data # last.image_data

-----------------------------------------------------------------------------
(* C6 *)

\* C6 as stated: the model main.py builds is the one create_model.py builds
\* with its defaults, so its number of output units is the length of the
\* breed list and is 120.
C6_Original ==
    ~model.none =>
        /\ model.arch = train_default_model
        /\ model.arch.units = Len(breeds.list)
        /\ model.arch.units = OUTPUT_SHAPE

\* C6 amended: the model main.py builds has the input shape 224x224x3, the
\* feature-extractor URL and the softmax dense head of create_model.py's
\* default model, and differs from that model in nothing but the number of
\* output units, which is the length of the breed list.
C6_SameArchitectureButUnits ==
    ~model.none =>
        /\ model.arch.input_shape = train_default_model.input_shape
        /\ model.arch.input_shape = <<224, 224, 3>>
        /\ model.arch.url = train_default_model.url
        /\ model.arch.activation = train_default_model.activation
        /\ model.arch.activation = "softmax"
        /\ [model.arch EXCEPT !.units = OUTPUT_SHAPE] = train_default_model
        /\ model.arch.units = Len(breeds.list)

\* startup has built a model for a breed list that is not 120 long
C6_Witness ==
    /\ phase = "running"
    /\ ~model.none
    /\ Len(breeds.list) = MaxBreeds
    /\ model.arch.units # OUTPUT_SHAPE

-----------------------------------------------------------------------------
(* C7 *)

\* C7: without breeds.json, load_breeds falls back to a breed list, and
\* breeds is a list after startup ran.
C7_FallbackBreeds ==
    (phase # "boot" /\ ~fs.breeds_json.exists) => breeds.kind = "list"

-----------------------------------------------------------------------------
(* C8 *)

\* C8: after a completed startup model is not None, so POST /predict and
\* GET /model/info never answer 503 and GET /health reports 'loaded'.
C8_ModelNeverNone ==
    phase = "running" =>
        /\ ~model.none
        /\ last.ep \in {"predict", "info"} => last.status # 503
        /\ last.ep = "health" => last.model_status = "loaded"

\* the weights file was there but could not be loaded, startup completed,
\* and a POST /predict was answered
C8_Witness ==
    /\ phase = "running"
    /\ fs.weights = "bad"
    /\ Predicted(200)

-----------------------------------------------------------------------------
(* C9 *)

\* C9: every POST /predict ends in 503 when model is None, otherwise 400
\* when the content type does not start with 'image/', otherwise 200 with
\* success true or 500 'Error processing image'; no exception leaves the
\* handler, also for an upload without content type.
C9_FourOutcomes ==
    last.ep = "predict" =>
        /\ ~last.escaped
        /\ IF model.none THEN last.status = 503 /\ last.detail = "Model not loaded"
           ELSE IF ~DeclaredImage(last.content_type) THEN last.status = 400
           ELSE \/ last.status = 200 /\ last.success
                \/ last.status = 500 /\ last.detail = "Error processing image"

-----------------------------------------------------------------------------
(* C10 *)

\* C10: top_3_predictions of a 200 response lists min(3, number of breeds)
\* entries of pairwise distinct indices in non-increasing order of
\* confidence, no breed left out has a higher probability than a listed one,
\* and the first entry has the breed and the confidence of prediction.
C10_TopThree ==
    Predicted(200) =>
        LET row == last.predictions[1]
            idx == last.top_indices
            n == Len(breeds.list)
        IN  /\ Len(last.top_3) = (IF n < 3 THEN n ELSE 3)
            /\ Len(idx) = Len(last.top_3)
            /\ \A j, k \in 1..Len(idx) : j # k => idx[j] # idx[k]
            /\ \A k \in 1..Len(idx) :
                /\ idx[k] \in 1..n
                /\ last.top_3[k].breed = Title(Replace(breeds.list[idx[k]]))
                /\ last.top_3[k].confidence = row[idx[k]]
            /\ \A k \in 1..(Len(idx) - 1) :
                last.top_3[k].confidence >= last.top_3[k + 1].confidence
            /\ \A i \in 1..n :
                (\A k \in 1..Len(idx) : idx[k] # i) =>
                    \A k \in 1..Len(idx) : row[i] <= row[idx[k]]
            /\ last.top_3[1].breed = last.breed
            /\ last.top_3[1].confidence = last.confidence

====
